---- MODULE Spec2Model ----
(***************************************************************************)
(* LLM request reliability layer of AI-Factory:                            *)
(*   src/src/llm_request.py    LLMRequestHandler.make_request              *)
(*   src/src/llm_providers.py  LLMProviderRouter                           *)
(*   src/src/llm_validation.py LLMResponseValidator                        *)
(*   src/src/config.py         model / provider / retry tables             *)
(* One make_request invocation is a sequential process; its position is    *)
(* pc.  The remote provider, the custom validator and the post-processor   *)
(* are the environment: their results are drawn nondeterministically.      *)
(***************************************************************************)
EXTENDS Integers, Sequences, FiniteSets, TLC

\* Python's None
NoneVal == "None"

(***************************************************************************)
(* src/src/config.py                                                       *)
(***************************************************************************)
LLM_MODELS ==
  [ extract_sections |-> "deepseek-chat",
    create_structure |-> "deepseek-reasoner",
    generate_article |-> "deepseek-reasoner",
    fact_check       |-> "gemini-2.5-flash-preview-09-2025",
    link_placement   |-> "gemini-2.5-flash-preview-09-2025",
    translation      |-> "deepseek-reasoner",
    editorial_review |-> "deepseek-reasoner" ]

FALLBACK_MODELS ==
  [ extract_sections |-> "google/gemini-2.5-flash-lite-preview-06-17",
    create_structure |-> "google/gemini-2.5-flash-lite-preview-06-17",
    generate_article |-> "google/gemini-2.5-flash-lite-preview-06-17",
    fact_check       |-> "gemini-2.5-flash",
    link_placement   |-> "gemini-2.5-flash",
    translation      |-> "google/gemini-2.5-flash-lite-preview-06-17",
    editorial_review |-> "google/gemini-2.5-flash-lite-preview-06-17" ]

\* RETRY_CONFIG["max_attempts"]
max_attempts == 3

\* RETRY_CONFIG["delays"]
delays == <<2, 5, 10>>

\* LLM_PROVIDERS, in dict order; the fields the router reads
ProviderOrder == <<"deepseek", "google_direct", "openrouter">>

LLM_PROVIDERS ==
  [ deepseek |->
      [ api_key_env |-> "DEEPSEEK_API_KEY",
        models |-> {"deepseek-reasoner", "deepseek-chat"},
        supports_web_search |-> FALSE ],
    google_direct |->
      [ api_key_env |-> "GEMINI_API_KEY",
        models |-> {"gemini-2.5-flash-preview-09-2025", "gemini-2.5-flash",
                    "gemini-2.5-pro", "gemini-2.0-flash"},
        supports_web_search |-> TRUE ],
    openrouter |->
      [ api_key_env |-> "OPENROUTER_API_KEY",
        models |-> {"openai/gpt-5", "openai/gpt-4o", "openai/gpt-4o-mini",
                    "openai/gpt-4-turbo", "openai/gpt-3.5-turbo",
                    "google/gemini-2.0-flash-001",
                    "google/gemini-2.5-flash-lite-preview-06-17",
                    "google/gemini-2.0-flash-exp:free",
                    "deepseek/deepseek-chat-v3.1:free",
                    "perplexity/sonar-reasoning-pro",
                    "perplexity/sonar-reasoning-pro:online",
                    "x-ai/grok-4-fast:free", "z-ai/glm-4.5-air:free"},
        supports_web_search |-> FALSE ] ]

Providers == {ProviderOrder[i] : i \in 1..Len(ProviderOrder)}

AllListedModels == UNION {LLM_PROVIDERS[p].models : p \in Providers}

\* the last provider of the table as the default
get_provider_for_model_lastDefault(model_name) ==
  IF \E i \in 1..Len(ProviderOrder) :
        model_name \in LLM_PROVIDERS[ProviderOrder[i]].models
  THEN LET i == CHOOSE j \in 1..Len(ProviderOrder) :
                  /\ model_name \in LLM_PROVIDERS[ProviderOrder[j]].models
                  /\ \A k \in 1..(j-1) :
                        model_name \notin LLM_PROVIDERS[ProviderOrder[k]].models
       IN ProviderOrder[i]
  ELSE "openrouter"

\* get_provider_for_model: first provider (dict order) listing the model,
\* "deepseek" when none does
get_provider_for_model(model_name) ==
  IF \E i \in 1..Len(ProviderOrder) :
        model_name \in LLM_PROVIDERS[ProviderOrder[i]].models
  THEN LET i == CHOOSE j \in 1..Len(ProviderOrder) :
                  /\ model_name \in LLM_PROVIDERS[ProviderOrder[j]].models
                  /\ \A k \in 1..(j-1) :
                        model_name \notin LLM_PROVIDERS[ProviderOrder[k]].models
       IN ProviderOrder[i]
  ELSE "deepseek"

(***************************************************************************)
(* Inputs of one invocation, drawn from small sets                         *)
(***************************************************************************)
\* min_length passed by the caller in **validation_kwargs (scaled down)
MinLengthArg == 2

\* message.content of a response: None, or a string.  chars is the string;
\* garbage abstracts the outcome of the statistical text checks 1-4 of
\* _validate_v3 (compression, entropy, bigrams, word density)
TextNone   == [none |-> TRUE,  chars |-> <<>>, garbage |-> FALSE]
TextEmpty  == [none |-> FALSE, chars |-> <<>>, garbage |-> FALSE]
TextBlank  == [none |-> FALSE, chars |-> <<" ", "\n", "\t">>, garbage |-> FALSE]
TextShort  == [none |-> FALSE, chars |-> <<" ", "a">>, garbage |-> FALSE]
TextGood   == [none |-> FALSE,
               chars |-> <<" ">> \o [i \in 1..MinLengthArg |-> IF i % 2 = 1 THEN "a" ELSE "b"] \o <<"\n">>,
               garbage |-> FALSE]
TextRepeat == [none |-> FALSE,
               chars |-> [i \in 1..(MinLengthArg + 1) |-> "a"],
               garbage |-> TRUE]

\* what a provider can answer: content, finish_reason, usage present or None
Responses ==
  { [kind |-> "response", content |-> TextNone,   finish_reason |-> "stop",       usage |-> TRUE],
    [kind |-> "response", content |-> TextEmpty,  finish_reason |-> "stop",       usage |-> TRUE],
    [kind |-> "response", content |-> TextBlank,  finish_reason |-> "stop",       usage |-> FALSE],
    [kind |-> "response", content |-> TextShort,  finish_reason |-> "stop",       usage |-> TRUE],
    [kind |-> "response", content |-> TextGood,   finish_reason |-> "stop",       usage |-> TRUE],
    [kind |-> "response", content |-> TextGood,   finish_reason |-> "stop",       usage |-> FALSE],
    [kind |-> "response", content |-> TextGood,   finish_reason |-> "MAX_TOKENS", usage |-> TRUE],
    [kind |-> "response", content |-> TextRepeat, finish_reason |-> "stop",       usage |-> TRUE] }

NoResponse == [kind |-> "none"]

StageNames == {"fact_check", "translation_section_1", "summarize"}

ModelNameArgs == {NoneVal, "google/gemini-2.5-flash-lite-preview-06-17", "unlisted-model"}

ValidationLevels == {"none", "minimal", "v3", "strict"}

\* sets of providers whose credential is present in the environment
Environments == {Providers, Providers \ {"deepseek"}, Providers \ {"google_direct"},
                 Providers \ {"openrouter"}}

Configs ==
  [ stage_name       : StageNames,
    model_name       : ModelNameArgs,
    validation_level : ValidationLevels,
    custom_validator : BOOLEAN,
    post_processor   : BOOLEAN,
    base_path        : BOOLEAN,
    token_tracker    : BOOLEAN ]

(***************************************************************************)
(* src/src/llm_validation.py                                               *)
(***************************************************************************)
IsSpace(c) == c \in {" ", "\n", "\t", "\r"}

RECURSIVE LStrip(_)
LStrip(s) == IF s # <<>> /\ IsSpace(Head(s)) THEN LStrip(Tail(s)) ELSE s

RECURSIVE RStrip(_)
RStrip(s) ==
  IF s # <<>> /\ IsSpace(s[Len(s)]) THEN RStrip(SubSeq(s, 1, Len(s) - 1)) ELSE s

\* str.strip()
Strip(s) == RStrip(LStrip(s))

\* LLMResponseValidator._validate_minimal
\* the length is taken without stripping
validate_minimal_noStrip(text, min_length) == Len(text.chars) >= min_length

validate_minimal(text, min_length) == Len(Strip(text.chars)) >= min_length

valid_reasons == {"STOP", "stop", "END_TURN", "end_turn"}

\* _validate_v3 without its finish reason check
validate_v3_noFinishGate(content, min_length, finish_reason) ==
  IF content.none \/ content.chars = <<>> THEN FALSE
  ELSE IF Len(Strip(content.chars)) < min_length THEN FALSE
  ELSE IF content.garbage THEN FALSE
  ELSE TRUE

\* LLMResponseValidator._validate_v3 without a target_language
validate_v3(content, min_length, finish_reason) ==
  IF content.none \/ content.chars = <<>> THEN FALSE
  ELSE IF Len(Strip(content.chars)) < min_length THEN FALSE
  ELSE IF content.garbage THEN FALSE
  ELSE IF finish_reason # NoneVal /\ finish_reason # "" /\ finish_reason \notin valid_reasons
       THEN FALSE
  ELSE TRUE

\* the custom validator is consulted before the level
validate_customFirst(response_text, validation_level, custom_validator, custom_result, min_length, finish_reason) ==
  IF custom_validator THEN custom_result
  ELSE IF validation_level = "none" THEN "pass"
  ELSE IF validation_level = "minimal"
       THEN (IF validate_minimal(response_text, min_length) THEN "pass" ELSE "fail")
  ELSE IF validation_level = "v3"
       THEN (IF validate_v3(response_text, min_length, finish_reason) THEN "pass" ELSE "fail")
  ELSE "raise"

\* an unknown level falls through to acceptance instead of raising
validate_fallThrough(response_text, validation_level, custom_validator, custom_result, min_length, finish_reason) ==
  IF validation_level = "none" THEN "pass"
  ELSE IF custom_validator THEN custom_result
  ELSE IF validation_level = "minimal"
       THEN (IF validate_minimal(response_text, min_length) THEN "pass" ELSE "fail")
  ELSE IF validation_level = "v3"
       THEN (IF validate_v3(response_text, min_length, finish_reason) THEN "pass" ELSE "fail")
  ELSE "pass"

\* LLMResponseValidator.validate: "pass", "fail" or "raise".  custom_result
\* is what the caller's custom validator answers for this text.
validate(response_text, validation_level, custom_validator, custom_result, min_length, finish_reason) ==
  IF validation_level = "none" THEN "pass"
  ELSE IF custom_validator THEN custom_result
  ELSE IF validation_level = "minimal"
       THEN (IF validate_minimal(response_text, min_length) THEN "pass" ELSE "fail")
  ELSE IF validation_level = "v3"
       THEN (IF validate_v3(response_text, min_length, finish_reason) THEN "pass" ELSE "fail")
  ELSE "raise"

(***************************************************************************)
(* State                                                                   *)
(***************************************************************************)
VARIABLES
  cfg,             \* arguments of the make_request invocation
  env,             \* providers whose API key is set in the environment
  disk,            \* the file system under base_path: "ok" or "faulty"
  clients_cache,   \* LLMProviderRouter._clients_cache (keys)
  pc,              \* position of the invocation
  models_to_try,   \* make_request local
  model_index,     \* index into models_to_try (1 = primary)
  attempt,         \* make_request local: attempt
  response_obj,    \* make_request local; survives a failed later attempt
  provider,        \* make_request local
  outcome,         \* how the current attempt ended ("pending" while running)
  last_exception,  \* make_request local
  trace,           \* router calls and backoff sleeps, in order
  http_log,        \* requests sent to providers, in order
  n_validate,      \* validator invocations in the current attempt
  n_post,          \* post-processor invocations in the current attempt
  artifacts,       \* debug files written in the current attempt
  session_tokens,  \* TokenTracker.session_tokens
  result,          \* what make_request returned or raised
  recorder_calls,  \* token_tracker.add_usage calls made by make_request
  unit_in,         \* arguments of a function applied on its own
  unit_out,        \* its result
  shared,          \* objects shared by concurrently running threads
  threads          \* each thread's locals and position

vars == <<cfg, env, disk, clients_cache, pc, models_to_try, model_index, attempt,
          response_obj, provider, outcome, last_exception, trace, http_log,
          n_validate, n_post, artifacts, session_tokens, result,
          recorder_calls, unit_in, unit_out, shared, threads>>

\* the variables of the function-level and thread-level specifications
unit_vars == <<unit_in, unit_out, shared, threads>>

\* no function is being applied on its own
NoUnit == [fn |-> "none", kind |-> "none"]

\* no threads are running
NoThreads == [kind |-> "none"]

\* dict.get(key)
Get(dict, key) == IF key \in DOMAIN dict THEN dict[key] ELSE NoneVal

\* stage_name.split("_section_")[0] on the stage names drawn here
base_stage_name(stage_name) ==
  IF stage_name = "translation_section_1" THEN "translation" ELSE stage_name

primary_model(c) ==
  IF c.model_name # NoneVal THEN c.model_name
  ELSE Get(LLM_MODELS, base_stage_name(c.stage_name))

fallback_model(c) == Get(FALLBACK_MODELS, base_stage_name(c.stage_name))

\* the fallback is appended without comparing it with the primary
BuildModelsToTry_duplicate(c) ==
  IF fallback_model(c) # NoneVal
  THEN <<primary_model(c), fallback_model(c)>>
  ELSE <<primary_model(c)>>

\* fallback tried first
BuildModelsToTry_swapped(c) ==
  IF fallback_model(c) # NoneVal /\ fallback_model(c) # primary_model(c)
  THEN <<fallback_model(c), primary_model(c)>>
  ELSE <<primary_model(c)>>

\* models_to_try as built at the top of make_request
BuildModelsToTry(c) ==
  IF fallback_model(c) # NoneVal /\ fallback_model(c) # primary_model(c)
  THEN <<primary_model(c), fallback_model(c)>>
  ELSE <<primary_model(c)>>

current_model == models_to_try[model_index]

model_label == IF model_index = 1 THEN "primary" ELSE "fallback"

CallEvent(m, a)  == [ev |-> "call",  model |-> m, attempt |-> a, delay |-> 0]
SleepEvent(m, a, d) == [ev |-> "sleep", model |-> m, attempt |-> a, delay |-> d]

Artifact(kind, a) == [kind |-> kind, model |-> current_model, attempt |-> a]

\* the _save_* helpers are called when base_path is set; the write puts one
\* file on disk or, on a faulty disk, may fail and leave none
Save(files, kind) ==
  IF ~cfg.base_path THEN {files}
  ELSE IF disk = "faulty" THEN {Append(files, Artifact(kind, attempt)), files}
  ELSE {Append(files, Artifact(kind, attempt))}

\* the write of a debug file failed
SaveFailed(before, after) == cfg.base_path /\ after = before

\* the error of a failed write leaves the helper
save_raises_onFailure(before, after) == SaveFailed(before, after)

\* a _save_* helper raises: never, its body is inside try/except Exception,
\* which logs the error (lines 420-421, 457-458, 493-494)
save_raises(before, after) == FALSE

Init ==
  /\ cfg \in Configs
  /\ env \in Environments
  /\ disk = "ok"
  /\ clients_cache = {}
  /\ pc = "idle"
  /\ models_to_try = <<>>
  /\ model_index = 1
  /\ attempt = 1
  /\ response_obj = NoResponse
  /\ provider = NoneVal
  /\ outcome = "pending"
  /\ last_exception = NoneVal
  /\ trace = <<>>
  /\ http_log = <<>>
  /\ n_validate = 0
  /\ n_post = 0
  /\ artifacts = <<>>
  /\ session_tokens = <<>>
  /\ result = [kind |-> "none"]
  /\ recorder_calls = <<>>
  /\ unit_in = NoUnit
  /\ unit_out = NoUnit
  /\ shared = NoThreads
  /\ threads = NoThreads

\* make_request entry: model selection (lines 129-149)
MakeRequest ==
  /\ pc = "idle"
  /\ IF primary_model(cfg) = NoneVal
     THEN /\ pc' = "raised"
          /\ result' = [kind |-> "raised", error |-> "ValueError",
                        tried |-> <<>>, cause |-> NoneVal]
          /\ UNCHANGED models_to_try
     ELSE /\ pc' = "route"
          /\ models_to_try' = BuildModelsToTry(cfg)
          /\ UNCHANGED result
  /\ UNCHANGED unit_vars
  /\ UNCHANGED <<cfg, env, disk, clients_cache, model_index, attempt, response_obj,
                 provider, outcome, last_exception, trace, http_log,
                 n_validate, n_post, artifacts, session_tokens,
                 recorder_calls>>

(***************************************************************************)
(* src/src/llm_providers.py                                                *)
(***************************************************************************)
\* _get_or_create_client raises ValueError: no cached client and the
\* provider is not configured or its API key is not in the environment
get_or_create_client_raises(p, cache) ==
  /\ p \notin cache
  /\ (p \notin DOMAIN LLM_PROVIDERS \/ p \notin env)

\* _clients_cache after _get_or_create_client(p)
get_or_create_client_cache(p, cache) ==
  IF get_or_create_client_raises(p, cache) THEN cache ELSE cache \cup {p}

\* route_request raises ValueError before any request is sent
route_raises_config(model, cache) ==
  LET p == get_provider_for_model(model) IN
    IF p = "google_direct" THEN "google_direct" \notin env
    ELSE IF p \in {"deepseek", "openrouter"} THEN get_or_create_client_raises(p, cache)
    ELSE TRUE

\* _clients_cache after route_request(model)
route_cache(model, cache) ==
  LET p == get_provider_for_model(model) IN
    IF p \in {"deepseek", "openrouter"} THEN get_or_create_client_cache(p, cache)
    ELSE cache

HttpRequest(p, m) == [provider |-> p, model |-> m]

\* One attempt starts: provider_router.route_request (lines 155-167).
\* The provider answers with a response or the call raises.
RouteRequest ==
  /\ pc = "route"
  /\ trace' = Append(trace, CallEvent(current_model, attempt))
  /\ n_validate' = 0
  /\ n_post' = 0
  /\ artifacts' = <<>>
  /\ clients_cache' = route_cache(current_model, clients_cache)
  /\ IF route_raises_config(current_model, clients_cache)
     THEN /\ outcome' = "config_error"
          /\ pc' = "except"
          /\ UNCHANGED <<response_obj, provider, http_log>>
     ELSE /\ http_log' = Append(http_log,
                 HttpRequest(get_provider_for_model(current_model), current_model))
          /\ \/ /\ outcome' = "transport_error"
                /\ pc' = "except"
                /\ UNCHANGED <<response_obj, provider>>
             \/ /\ \E r \in Responses : response_obj' = r
                /\ provider' = get_provider_for_model(current_model)
                /\ outcome' = "pending"
                /\ pc' = "received"
  /\ UNCHANGED unit_vars
  /\ UNCHANGED <<cfg, env, disk, models_to_try, model_index, attempt, last_exception,
                 session_tokens, result, recorder_calls>>

(***************************************************************************)
(* src/src/token_tracker.py                                                *)
(***************************************************************************)
\* TokenTracker.add_usage: the entry is appended unless reading the usage
\* object raises; the SimpleNamespace usage built by _call_google_direct has
\* no completion_tokens_details attribute.  model_name is not passed by
\* make_request, so the entry carries the default.
add_usage(tokens, stage, from_provider, extra_metadata) ==
  IF from_provider = "google_direct" THEN tokens
  ELSE Append(tokens, [stage |-> stage, model_name |-> "unknown",
                       metadata |-> extra_metadata])

(***************************************************************************)
(* src/src/llm_request.py: the attempt body                                *)
(***************************************************************************)
\* only "not response_text": whitespace-only text is let through
IsEmptyText_noStrip(content) == content.none \/ content.chars = <<>>

\* _extract_response_text is empty: "not response_text or
\* len(response_text.strip()) == 0"
IsEmptyText(content) ==
  content.none \/ content.chars = <<>> \/ Len(Strip(content.chars)) = 0

\* "Track tokens" block (lines 244-256 and 290-301)
TrackTokens(post_processed) ==
  IF cfg.token_tracker /\ response_obj.usage
  THEN add_usage(session_tokens, cfg.stage_name, provider,
                 [model |-> current_model, provider |-> provider,
                  attempt |-> attempt, model_label |-> model_label,
                  post_processed |-> post_processed])
  ELSE session_tokens

\* the add_usage calls after the "Track tokens" block: the call is made only
\* under "token_tracker and hasattr(response_obj, 'usage') and
\* response_obj.usage"
RecorderCalls(post_processed) ==
  IF cfg.token_tracker /\ response_obj.usage
  THEN Append(recorder_calls,
              [stage |-> cfg.stage_name, usage |-> response_obj.usage,
               metadata |-> [model |-> current_model, provider |-> provider,
                             attempt |-> attempt, model_label |-> model_label,
                             post_processed |-> post_processed]])
  ELSE recorder_calls

\* the post-processor is handed the primary model's name
Processed_primary(text, m) ==
  [kind |-> "processed", text |-> text, model |-> models_to_try[1]]

\* the value of post_processor(response_text, current_model) when it succeeds
Processed(text, m) == [kind |-> "processed", text |-> text, model |-> m]

\* the primary model reported whatever model answered
ReturnedModel_primary == models_to_try[1]

\* the model name returned next to the value (lines 271 and 315)
ReturnedModel == current_model

\* exhaustion downgraded to an empty default result
ExhaustedError_default(models, cause) ==
  [kind |-> "returned", value |-> NoResponse, model |-> models[1]]

\* the terminal error: its message embeds models_to_try (lines 345-351)
ExhaustedError(models, cause) ==
  [kind |-> "raised", error |-> "AllModelsFailed", tried |-> models,
   cause |-> cause]

\* lines 169-185: save the raw response, extract the text, reject empty text
ExtractText ==
  /\ pc = "received"
  /\ artifacts' \in Save(artifacts, "raw")
  /\ IF save_raises(artifacts, artifacts')
     THEN /\ outcome' = "save_error"
          /\ pc' = "except"
     ELSE IF IsEmptyText(response_obj.content)
     THEN /\ outcome' = "empty"
          /\ pc' = "except"
     ELSE /\ pc' = "validate"
          /\ UNCHANGED outcome
  /\ UNCHANGED unit_vars
  /\ UNCHANGED <<cfg, env, disk, clients_cache, models_to_try, model_index, attempt,
                 response_obj, provider, last_exception, trace, http_log,
                 n_validate, n_post, session_tokens, result, recorder_calls>>

\* lines 187-217 and, without a post-processor, 288-315
Validate ==
  /\ pc = "validate"
  /\ n_validate' = n_validate + 1
  /\ \E custom_result \in {"pass", "fail", "raise"} :
       LET v == validate(response_obj.content, cfg.validation_level,
                         cfg.custom_validator, custom_result, MinLengthArg,
                         response_obj.finish_reason)
       IN
         IF v = "raise"
         THEN /\ outcome' = "validator_error"
              /\ pc' = "except"
              /\ UNCHANGED <<artifacts, session_tokens, result, recorder_calls>>
         ELSE IF v = "fail"
         THEN /\ outcome' = "invalid"
              /\ pc' = "except"
              /\ artifacts' \in Save(artifacts, "error")
              /\ UNCHANGED <<session_tokens, result, recorder_calls>>
         ELSE IF cfg.post_processor
         THEN /\ pc' = "postprocess"
              /\ UNCHANGED <<outcome, artifacts, session_tokens, result,
                             recorder_calls>>
         ELSE /\ session_tokens' = TrackTokens(FALSE)
              /\ recorder_calls' = RecorderCalls(FALSE)
              /\ artifacts' \in Save(artifacts, "success")
              /\ IF save_raises(artifacts, artifacts')
                 THEN /\ outcome' = "save_error"
                      /\ pc' = "except"
                      /\ UNCHANGED result
                 ELSE /\ outcome' = "success"
                      /\ result' = [kind |-> "returned", value |-> response_obj,
                                    model |-> ReturnedModel]
                      /\ pc' = "returned"
  /\ UNCHANGED unit_vars
  /\ UNCHANGED <<cfg, env, disk, clients_cache, models_to_try, model_index, attempt,
                 response_obj, provider, last_exception, trace, http_log, n_post>>

\* usage is recorded before the post-processor has run
PostProcess_tracksFirst ==
  /\ pc = "postprocess"
  /\ n_post' = n_post + 1
  /\ \/ \* the post-processor returns a value
        /\ session_tokens' = TrackTokens(TRUE)
        /\ recorder_calls' = RecorderCalls(TRUE)
        /\ artifacts' \in Save(artifacts, "success")
        /\ IF save_raises(artifacts, artifacts')
           THEN /\ outcome' = "save_error"
                /\ pc' = "except"
                /\ UNCHANGED result
           ELSE /\ outcome' = "success"
                /\ result' = [kind |-> "returned",
                              value |-> Processed(response_obj.content, current_model),
                              model |-> ReturnedModel]
                /\ pc' = "returned"
     \/ \* it returns None: the ValueError raised at line 240 is caught by
        \* the inner except at line 273, which saves the response again
        /\ \E once \in Save(artifacts, "error") : artifacts' \in Save(once, "error")
        /\ outcome' = "post_none"
        /\ pc' = "except"
        /\ session_tokens' = TrackTokens(TRUE)
        /\ recorder_calls' = RecorderCalls(TRUE)
        /\ UNCHANGED result
     \/ \* it raises
        /\ artifacts' \in Save(artifacts, "error")
        /\ outcome' = "post_exception"
        /\ pc' = "except"
        /\ session_tokens' = TrackTokens(TRUE)
        /\ recorder_calls' = RecorderCalls(TRUE)
        /\ UNCHANGED result
  /\ UNCHANGED unit_vars
  /\ UNCHANGED <<cfg, env, disk, clients_cache, models_to_try, model_index, attempt,
                 response_obj, provider, last_exception, trace, http_log,
                 n_validate>>

\* lines 219-287
PostProcess ==
  /\ pc = "postprocess"
  /\ n_post' = n_post + 1
  /\ \/ \* the post-processor returns a value
        /\ session_tokens' = TrackTokens(TRUE)
        /\ recorder_calls' = RecorderCalls(TRUE)
        /\ artifacts' \in Save(artifacts, "success")
        /\ IF save_raises(artifacts, artifacts')
           THEN /\ outcome' = "save_error"
                /\ pc' = "except"
                /\ UNCHANGED result
           ELSE /\ outcome' = "success"
                /\ result' = [kind |-> "returned",
                              value |-> Processed(response_obj.content, current_model),
                              model |-> ReturnedModel]
                /\ pc' = "returned"
     \/ \* it returns None: the ValueError raised at line 240 is caught by
        \* the inner except at line 273, which saves the response again
        /\ \E once \in Save(artifacts, "error") : artifacts' \in Save(once, "error")
        /\ outcome' = "post_none"
        /\ pc' = "except"
        /\ UNCHANGED <<session_tokens, result, recorder_calls>>
     \/ \* it raises
        /\ artifacts' \in Save(artifacts, "error")
        /\ outcome' = "post_exception"
        /\ pc' = "except"
        /\ UNCHANGED <<session_tokens, result, recorder_calls>>
  /\ UNCHANGED unit_vars
  /\ UNCHANGED <<cfg, env, disk, clients_cache, models_to_try, model_index, attempt,
                 response_obj, provider, last_exception, trace, http_log,
                 n_validate>>

\* no backoff after an empty response
WaitBeforeRetry_unlessEmpty(a) == a < max_attempts /\ outcome # "empty"

\* the last attempt on a model skipped
WaitBeforeRetry_early(a) == a < max_attempts - 1

\* off by one: a backoff and one more attempt after the last attempt
WaitBeforeRetry_inclusive(a) == a <= max_attempts

\* "if attempt < RETRY_CONFIG['max_attempts']" (line 337)
WaitBeforeRetry(a) == a < max_attempts

\* delays indexed by attempt instead of attempt - 1
BackoffDelay_shifted(a) == delays[a + 1]

\* RETRY_CONFIG["delays"][attempt - 1] (line 338)
BackoffDelay(a) == delays[a]

\* except Exception (lines 317-343): every exception of the attempt body
\* lands here, whatever raised it
HandleException ==
  /\ pc = "except"
  /\ last_exception' = outcome
  /\ artifacts' \in IF response_obj.kind # "none" THEN Save(artifacts, "error")
                    ELSE {artifacts}
  /\ IF WaitBeforeRetry(attempt)
     THEN /\ pc' = "sleep"
          /\ UNCHANGED <<model_index, attempt, result>>
     ELSE IF model_index < Len(models_to_try)
     THEN /\ model_index' = model_index + 1
          /\ attempt' = 1
          /\ pc' = "route"
          /\ UNCHANGED result
     ELSE /\ pc' = "raised"
          /\ result' = ExhaustedError(models_to_try, outcome)
          /\ UNCHANGED <<model_index, attempt>>
  /\ UNCHANGED unit_vars
  /\ UNCHANGED <<cfg, env, disk, clients_cache, models_to_try, response_obj, provider,
                 outcome, trace, http_log, n_validate, n_post, session_tokens,
                 recorder_calls>>

\* time.sleep never returns: the attempt loop does not advance
Sleep_stuck ==
  /\ pc = "sleep"
  /\ UNCHANGED vars

\* time.sleep(delay), then the next iteration of the retry loop (line 340)
Sleep ==
  /\ pc = "sleep"
  /\ trace' = Append(trace, SleepEvent(current_model, attempt, BackoffDelay(attempt)))
  /\ attempt' = attempt + 1
  /\ pc' = "route"
  /\ UNCHANGED unit_vars
  /\ UNCHANGED <<cfg, env, disk, clients_cache, models_to_try, model_index,
                 response_obj, provider, outcome, last_exception, http_log,
                 n_validate, n_post, artifacts, session_tokens, result,
                 recorder_calls>>

Next ==
  \/ MakeRequest
  \/ RouteRequest
  \/ ExtractText
  \/ Validate
  \/ PostProcess
  \/ HandleException
  \/ Sleep

Spec == Init /\ [][Next]_vars

\* every call made by make_request returns or raises, so the running
\* invocation always takes its next step
LiveSpec == Spec /\ WF_vars(Next)

(***************************************************************************)
(* Properties of the request orchestrator                                  *)
(***************************************************************************)
IsCall(e)  == e.ev = "call"
IsSleep(e) == e.ev = "sleep"

\* the router calls made so far, in order
Calls == SelectSeq(trace, IsCall)

CallsTo(m) == Cardinality({i \in 1..Len(Calls) : Calls[i].model = m})

RouterFailures == {"config_error", "transport_error"}

\* no router call of the invocation has returned a response
RouterAlwaysFailed == response_obj = NoResponse

Exhausted == pc = "raised" /\ result.kind = "raised" /\ result.error = "AllModelsFailed"

HasFallback ==
  fallback_model(cfg) # NoneVal /\ fallback_model(cfg) # primary_model(cfg)

\* [primary, primary, primary, fallback, fallback, fallback]
SixAttempts ==
  LET p == primary_model(cfg)
      f == fallback_model(cfg)
  IN <<CallEvent(p, 1), CallEvent(p, 2), CallEvent(p, 3),
       CallEvent(f, 1), CallEvent(f, 2), CallEvent(f, 3)>>

\* C1: with a primary and a distinct fallback model and a router that fails
\* on every call, the router calls made so far are always an initial part of
\* [primary x3, fallback x3], and the exhaustion error is raised exactly when
\* all six have been made.
C1_SixAttemptsInOrder ==
  (pc # "idle" /\ primary_model(cfg) # NoneVal /\ HasFallback /\ RouterAlwaysFailed) =>
     /\ Len(Calls) <= 6
     /\ Calls = SubSeq(SixAttempts, 1, Len(Calls))
     /\ (pc = "raised" => Exhausted /\ Calls = SixAttempts)

C1_Witness ==
  /\ Exhausted /\ HasFallback /\ RouterAlwaysFailed
  /\ last_exception = "transport_error"
  /\ Len(Calls) = 6

\* C2: in every state the number of router calls is at most K per model and
\* at most K x (1 + has_fallback) in total, K = 3.
C2_AttemptBudget ==
  /\ \A i \in 1..Len(models_to_try) : CallsTo(models_to_try[i]) <= 3
  /\ Len(Calls) <= 3 * (1 + (IF HasFallback THEN 1 ELSE 0))

C2_Witness ==
  /\ HasFallback
  /\ Len(Calls) = 6
  /\ CallsTo(primary_model(cfg)) = 3
  /\ CallsTo(fallback_model(cfg)) = 3

\* C3: when make_request has returned, the last thing it did on the router
\* was the call of the successful attempt, the returned model name is the
\* model of that attempt, and the calls made are exactly the attempts up to
\* it; with empty text on attempt 1 and valid text on attempt 2 that is two
\* calls and a result attributed to attempt 2 of the primary model.
C3_ReturnsAtFirstSuccess ==
  pc = "returned" =>
     /\ outcome = "success"
     /\ result.kind = "returned"
     /\ trace # <<>>
     /\ trace[Len(trace)] = CallEvent(result.model, attempt)
     /\ result.model = models_to_try[model_index]
     /\ Len(Calls) = 3 * (model_index - 1) + attempt
     /\ (model_index = 1 /\ attempt = 2 =>
            /\ Len(Calls) = 2
            /\ result.model = primary_model(cfg)
            /\ Calls[2] = CallEvent(primary_model(cfg), 2))

C3_Witness ==
  /\ pc = "returned"
  /\ model_index = 1 /\ attempt = 2
  /\ last_exception = "empty"
  /\ Len(Calls) = 2

\* the response of the current attempt passes the validator (decidable here
\* when the verdict is not the custom validator's)
PassesValidator ==
  cfg.validation_level # "none" /\ ~cfg.custom_validator =>
     IF cfg.validation_level = "minimal"
     THEN Len(Strip(response_obj.content.chars)) >= MinLengthArg
     ELSE /\ cfg.validation_level = "v3"
          /\ Len(Strip(response_obj.content.chars)) >= MinLengthArg
          /\ ~response_obj.content.garbage
          /\ response_obj.finish_reason \in valid_reasons

\* C4: a value is returned only by an attempt that passed every gate
\* (non-empty text, validator, post-processor when supplied), and the value
\* is that attempt's response or its post-processed text; when every attempt
\* on every model has failed the invocation has raised the terminal error
\* that carries the list of attempted models.
C4_NoSilentDefault ==
  /\ result.kind = "returned" =>
        /\ pc = "returned" /\ outcome = "success"
        /\ response_obj.kind = "response"
        /\ ~response_obj.content.none
        /\ Strip(response_obj.content.chars) # <<>>
        /\ n_validate = 1
        /\ PassesValidator
        /\ n_post = (IF cfg.post_processor THEN 1 ELSE 0)
        /\ result.value = (IF cfg.post_processor
                           THEN Processed(response_obj.content, result.model)
                           ELSE response_obj)
  /\ pc = "raised" /\ primary_model(cfg) # NoneVal =>
        /\ Exhausted
        /\ result.tried = models_to_try
        /\ Len(Calls) = 3 * Len(models_to_try)
  /\ pc \notin {"returned", "raised"} => result.kind = "none"

C4_Witness ==
  /\ Exhausted
  /\ result.tried = <<primary_model(cfg), fallback_model(cfg)>>
  /\ last_exception = "invalid"

\* C5: the fallback model gets a router call only after the primary model's
\* three attempts, and no call to the primary follows a call to the fallback.
C5_FallbackOnlyAfterPrimary ==
  HasFallback =>
    \A i \in 1..Len(Calls) :
       Calls[i].model = fallback_model(cfg) =>
          /\ i > 3
          /\ \A j \in 1..3 : Calls[j] = CallEvent(primary_model(cfg), j)
          /\ \A j \in i..Len(Calls) : Calls[j].model = fallback_model(cfg)

C5_Witness ==
  /\ HasFallback
  /\ Len(Calls) = 5
  /\ Calls[4] = CallEvent(fallback_model(cfg), 1)
  /\ Calls[5] = CallEvent(fallback_model(cfg), 2)

\* the response held is the one of the current attempt
FreshResponse ==
  /\ response_obj.kind = "response"
  /\ pc # "idle"
  /\ outcome \notin RouterFailures

\* None, empty, or nothing but whitespace
IsBlank(content) ==
  content.none \/ \A i \in 1..Len(content.chars) : IsSpace(content.chars[i])

\* C6: when the router returned empty or whitespace-only text, the attempt
\* is failed as an empty response and neither the validator nor the
\* post-processor has been invoked in it.
C6_EmptyTextNeverValidated ==
  FreshResponse /\ IsBlank(response_obj.content) =>
     /\ n_validate = 0
     /\ n_post = 0
     /\ pc \notin {"validate", "postprocess", "returned"}
     /\ outcome \in {"pending", "empty"}
     /\ (pc # "received" => outcome = "empty")

C6_Witness ==
  /\ pc = "sleep"
  /\ outcome = "empty"
  /\ response_obj.content = TextBlank
  /\ cfg.post_processor
  /\ cfg.validation_level = "none"

\* the whole schedule of one invocation: every attempt on every model, a
\* backoff after each failed attempt but the last on a model
RECURSIVE Schedule(_, _, _)
Schedule(models, mi, a) ==
  IF mi > Len(models) THEN <<>>
  ELSE IF a < 3
  THEN <<CallEvent(models[mi], a), SleepEvent(models[mi], a, <<2, 5>>[a])>>
       \o Schedule(models, mi, a + 1)
  ELSE <<CallEvent(models[mi], a)>> \o Schedule(models, mi + 1, 1)

\* events of the schedule up to the position (mi, a, at)
ScheduleLen(mi, a, at) ==
  5 * (mi - 1) + 2 * (a - 1) + (IF at \in {"idle", "route"} THEN 0 ELSE 1)

\* C7: the router calls and backoff sleeps made so far are determined by the
\* model list and by how many attempts have been made, never by the kind of
\* the failures: they are the initial part of the one schedule.
C7_RetryPathIgnoresFailureKind ==
  pc # "idle" /\ primary_model(cfg) # NoneVal =>
     trace = SubSeq(Schedule(models_to_try, 1, 1), 1,
                    ScheduleLen(model_index, attempt, pc))

C7_Witness ==
  /\ pc = "except"
  /\ model_index = 2 /\ attempt = 2
  /\ last_exception = "transport_error"
  /\ outcome = "post_none"
  /\ Len(trace) = 8

\* C8: the step that handles a configuration error ends the invocation:
\* no backoff sleep and no further attempt follows.
C8_ConfigurationErrorIsFatal ==
  [][pc = "except" /\ outcome = "config_error" => pc' = "raised"]_vars

HttpTo(m) == Cardinality({i \in 1..Len(http_log) : http_log[i].model = m})

\* C9 as stated: no request is ever sent for a model that no provider lists.
C9_UnlistedModelSendsNothing ==
  \A i \in 1..Len(http_log) : http_log[i].model \in AllListedModels

\* C9 amended: a model that no provider lists is routed to the default
\* provider deepseek.  With the DeepSeek credential present every router
\* call for it sends one request, to deepseek; with the credential absent
\* every such call fails with a configuration error and sends nothing.
C9_UnlistedModelGoesToDeepseek ==
  \A m \in {models_to_try[i] : i \in 1..Len(models_to_try)} \ AllListedModels :
     /\ \A i \in 1..Len(http_log) :
           http_log[i].model = m => http_log[i].provider = "deepseek"
     /\ IF "deepseek" \in env
        THEN /\ HttpTo(m) = CallsTo(m)
             /\ (CallsTo(m) > 0 => "deepseek" \in clients_cache)
             /\ (current_model = m => outcome # "config_error")
        ELSE /\ HttpTo(m) = 0
             /\ "deepseek" \notin clients_cache
             /\ (current_model = m /\ pc \in {"except", "sleep"}
                   => outcome = "config_error")

C9_Witness ==
  /\ models_to_try # <<>>
  /\ current_model \notin AllListedModels
  /\ "deepseek" \in env
  /\ pc = "received"
  /\ http_log = <<HttpRequest("deepseek", current_model)>>

\* C10: every backoff sleep directly follows a failed attempt i < 3 on a
\* model, lasts delays[i-1] (2s after the first, 5s after the second), and
\* is directly followed by attempt i+1 on the same model; every attempt
\* after the first on a model directly follows such a sleep; the first
\* attempt on the fallback directly follows the primary's third attempt;
\* and the exhaustion error is raised right after a router call.
C10_BackoffOnlyBetweenAttempts ==
  /\ \A i \in 1..Len(trace) :
        IsSleep(trace[i]) =>
           /\ i > 1
           /\ IsCall(trace[i-1])
           /\ trace[i-1].model = trace[i].model
           /\ trace[i-1].attempt = trace[i].attempt
           /\ trace[i].attempt \in {1, 2}
           /\ trace[i].delay = (IF trace[i].attempt = 1 THEN 2 ELSE 5)
           /\ (i < Len(trace) =>
                 trace[i+1] = CallEvent(trace[i].model, trace[i].attempt + 1))
  /\ \A i \in 1..Len(trace) :
        IsCall(trace[i]) =>
           IF trace[i].attempt > 1
           THEN i > 1 /\ IsSleep(trace[i-1])
           ELSE i > 1 => trace[i-1] = CallEvent(primary_model(cfg), 3)
                         /\ trace[i].model = fallback_model(cfg)
  /\ (pc = "raised" /\ trace # <<>> => IsCall(trace[Len(trace)]))
  /\ (pc = "sleep" => IsCall(trace[Len(trace)]) /\ attempt < 3)

C10_Witness ==
  /\ Exhausted
  /\ HasFallback
  /\ SelectSeq(trace, IsSleep) =
       <<SleepEvent(primary_model(cfg), 1, 2), SleepEvent(primary_model(cfg), 2, 5),
         SleepEvent(fallback_model(cfg), 1, 2), SleepEvent(fallback_model(cfg), 2, 5)>>

\* C11: within one attempt the post-processor is invoked at most once, and
\* only on the text of that attempt's response after the validator accepted
\* it; it is not invoked in an attempt that ended with a router error, an
\* empty response, a negative verdict or a validator error.
C11_PostProcessorOnlyAfterAcceptance ==
  /\ n_post <= 1
  /\ (n_post = 1 \/ pc = "postprocess") =>
        /\ cfg.post_processor
        /\ FreshResponse
        /\ ~IsBlank(response_obj.content)
        /\ n_validate = 1
        /\ PassesValidator
        /\ outcome \in {"pending", "success", "post_none", "post_exception"}
  /\ outcome \in {"config_error", "transport_error", "empty", "invalid",
                  "validator_error"} => n_post = 0

C11_Witness ==
  /\ pc = "sleep"
  /\ n_post = 1
  /\ outcome = "post_exception"
  /\ cfg.validation_level = "v3"
  /\ ~cfg.custom_validator
  /\ attempt = 2

\* C12: on success the returned pair is (post_processor(text, model), model)
\* for the accepted text and the model of the successful attempt when a
\* post-processor is supplied, and (response object, model) when none is;
\* with a post-processor the response object is not the returned value.
C12_ReturnedValue ==
  pc = "returned" =>
     /\ result.model = current_model
     /\ IF cfg.post_processor
        THEN /\ result.value = [kind |-> "processed",
                                text |-> response_obj.content,
                                model |-> current_model]
             /\ result.value # response_obj
        ELSE /\ result.value = response_obj
             /\ result.value.kind = "response"

C12_Witness ==
  /\ pc = "returned"
  /\ cfg.post_processor
  /\ model_index = 2
  /\ result.value.kind = "processed"
  /\ result.value.text = TextGood

(***************************************************************************)
(* Functions applied on their own: the orchestrator stays idle             *)
(***************************************************************************)
orch_vars == <<cfg, env, disk, clients_cache, pc, models_to_try, model_index, attempt,
               response_obj, provider, outcome, last_exception, trace, http_log,
               n_validate, n_post, artifacts, session_tokens, result,
               recorder_calls>>

IdleConfig ==
  [stage_name |-> "fact_check", model_name |-> NoneVal,
   validation_level |-> "v3", custom_validator |-> FALSE,
   post_processor |-> FALSE, base_path |-> FALSE, token_tracker |-> FALSE]

OrchestratorIdle ==
  /\ cfg = IdleConfig
  /\ env = Providers
  /\ disk = "ok"
  /\ clients_cache = {}
  /\ pc = "idle"
  /\ models_to_try = <<>>
  /\ model_index = 1
  /\ attempt = 1
  /\ response_obj = NoResponse
  /\ provider = NoneVal
  /\ outcome = "pending"
  /\ last_exception = NoneVal
  /\ trace = <<>>
  /\ http_log = <<>>
  /\ n_validate = 0
  /\ n_post = 0
  /\ artifacts = <<>>
  /\ session_tokens = <<>>
  /\ result = [kind |-> "none"]
  /\ recorder_calls = <<>>

(***************************************************************************)
(* src/src/llm_providers.py: _call_google_direct, the response side        *)
(***************************************************************************)
\* most content parts in one vendor response
MaxParts == 3

\* a content part: with a "text" key or without one
GoogleParts ==
  { [has_text |-> TRUE,  text |-> <<"a">>],
    [has_text |-> TRUE,  text |-> <<"b", " ">>],
    [has_text |-> FALSE, text |-> <<>>] }

GooglePartSeqs == UNION {[1..n -> GoogleParts] : n \in 0..MaxParts}

\* usageMetadata of the vendor response, when present; counts may be missing
GoogleUsageMetadata ==
  { [promptTokenCount |-> 7, candidatesTokenCount |-> 3, totalTokenCount |-> 10],
    [promptTokenCount |-> 7] }

\* vendor responses: HTTP status, candidates, content, parts, finishReason,
\* usageMetadata
GoogleResults ==
  [ fn : {"google"}, status : {200}, candidates : {"one"}, has_content : {TRUE},
    parts : GooglePartSeqs,
    has_finish : {TRUE}, finishReason : {"STOP", "MAX_TOKENS"},
    has_usage : {TRUE}, usageMetadata : GoogleUsageMetadata ]
  \cup
  [ fn : {"google"}, status : {200}, candidates : {"one"}, has_content : {TRUE},
    parts : GooglePartSeqs,
    has_finish : BOOLEAN, finishReason : {"STOP"},
    has_usage : {FALSE}, usageMetadata : {[promptTokenCount |-> 0]} ]
  \cup
  [ fn : {"google"}, status : {200, 500}, candidates : {"absent", "empty", "one"},
    has_content : BOOLEAN,
    parts : {<<>>},
    has_finish : {FALSE}, finishReason : {"STOP"},
    has_usage : {FALSE}, usageMetadata : {[promptTokenCount |-> 0]} ]

\* dict.get(key, default)
GetOr(dict, key, default) == IF key \in DOMAIN dict THEN dict[key] ELSE default

\* "".join(content_parts): the text of every part that has one, in order
RECURSIVE JoinParts(_)
JoinParts(parts) ==
  IF parts = <<>> THEN <<>>
  ELSE (IF Head(parts).has_text THEN Head(parts).text ELSE <<>>)
       \o JoinParts(Tail(parts))

\* response_obj.usage (lines 386-395)
google_usage(r) ==
  IF r.has_usage
  THEN [kind |-> "usage",
        prompt_tokens     |-> GetOr(r.usageMetadata, "promptTokenCount", 0),
        completion_tokens |-> GetOr(r.usageMetadata, "candidatesTokenCount", 0),
        total_tokens      |-> GetOr(r.usageMetadata, "totalTokenCount", 0)]
  ELSE [kind |-> "None"]

\* only the first content part is read
google_parse_firstPart(r) ==
  IF r.status # 200 THEN [kind |-> "raise", error |-> "Google API error"]
  ELSE IF r.candidates # "one" THEN [kind |-> "raise", error |-> "No candidates"]
  ELSE IF ~r.has_content THEN [kind |-> "raise", error |-> "No content"]
  ELSE [kind |-> "response",
        content |-> (IF r.parts # <<>> /\ r.parts[1].has_text THEN r.parts[1].text ELSE <<>>),
        finish_reason |-> (IF r.has_finish THEN r.finishReason ELSE "stop"),
        usage |-> google_usage(r),
        provider |-> "google_direct"]

\* the response side of _call_google_direct (lines 346-413)
google_parse(r) ==
  IF r.status # 200 THEN [kind |-> "raise", error |-> "Google API error"]
  ELSE IF r.candidates # "one" THEN [kind |-> "raise", error |-> "No candidates"]
  ELSE IF ~r.has_content THEN [kind |-> "raise", error |-> "No content"]
  ELSE [kind |-> "response",
        content |-> JoinParts(r.parts),
        finish_reason |-> (IF r.has_finish THEN r.finishReason ELSE "stop"),
        usage |-> google_usage(r),
        provider |-> "google_direct"]

InitGoogle ==
  /\ OrchestratorIdle
  /\ unit_in \in GoogleResults
  /\ unit_out = NoUnit
  /\ shared = NoThreads
  /\ threads = NoThreads

ParseGoogleResponse ==
  /\ unit_in.fn = "google"
  /\ unit_out = NoUnit
  /\ unit_out' = google_parse(unit_in)
  /\ UNCHANGED <<unit_in, shared, threads>>
  /\ UNCHANGED orch_vars

NextGoogle == ParseGoogleResponse

SpecGoogle == InitGoogle /\ [][NextGoogle]_vars

(***************************************************************************)
(* src/src/llm_validation.py applied to single inputs                      *)
(***************************************************************************)
\* kwargs.get("min_length", 300)
default_min_length == 300

kwargs_min_length(kw) ==
  IF "min_length" \in DOMAIN kw THEN kw.min_length ELSE default_min_length

\* kwargs.get("finish_reason")
kwargs_finish_reason(kw) ==
  IF "finish_reason" \in DOMAIN kw THEN kw.finish_reason ELSE NoneVal

\* a str: lead blanks, n letters, trail blanks; garbage tells whether the
\* statistical checks 1-4 of _validate_v3 reject it
Text(lead, n, trail, garbage) ==
  [none |-> FALSE,
   chars |-> [i \in 1..lead |-> " "] \o [i \in 1..n |-> "x"] \o [i \in 1..trail |-> " "],
   garbage |-> garbage]

FinishReasons == {NoneVal, "", "STOP", "stop", "END_TURN", "MAX_TOKENS", "SAFETY", "length"}

\* **kwargs of validate: min_length and finish_reason, each given or not
ValidateKwargs ==
  [min_length : {MinLengthArg}, finish_reason : FinishReasons]
  \cup [finish_reason : {NoneVal, "STOP", "MAX_TOKENS"}]
  \cup [min_length : {MinLengthArg}]

ValidateTexts ==
  { Text(lead, n, trail, g) :
      lead \in 0..1, n \in {0, 1, 2, 3, 299, 300}, trail \in 0..1, g \in BOOLEAN }

ValidateInputs ==
  [ fn : {"validate"},
    response_text : ValidateTexts,
    validation_level : ValidationLevels,
    custom_validator : BOOLEAN,
    custom_result : {"pass", "fail"},
    kwargs : ValidateKwargs ]

TranslationLengths == {1, 3, 4, 5, 6, 7, 750, 799, 800, 900, 1249, 1250, 1251, 1300}

OriginalLengths == {-1, 0, 4, 5, 1000}

TranslationInputs ==
  [ fn : {"translation_validator"},
    text : { Text(lead, n, 0, g) : lead \in 0..1, n \in TranslationLengths, g \in BOOLEAN },
    original_length : OriginalLengths,
    kwargs : [min_length : {MinLengthArg}, finish_reason : {"STOP", "MAX_TOKENS"}]
             \cup [finish_reason : {NoneVal, "stop"}] ]

\* the ratio is taken on the stripped text
translation_validator_stripped(text, original_length, kw) ==
  IF ~validate_v3(text, kwargs_min_length(kw), kwargs_finish_reason(kw)) THEN FALSE
  ELSE LET current_length == Len(Strip(text.chars)) IN
       IF original_length <= 0 THEN FALSE
       ELSE IF 5 * current_length < 4 * original_length THEN FALSE
       ELSE IF 4 * current_length > 5 * original_length THEN FALSE
       ELSE TRUE

\* translation_validator: ratio = len(text) / original_length, 0 when
\* original_length <= 0; ratio < 0.8 and ratio > 1.25 in exact integers
translation_validator(text, original_length, kw) ==
  IF ~validate_v3(text, kwargs_min_length(kw), kwargs_finish_reason(kw)) THEN FALSE
  ELSE LET current_length == Len(text.chars) IN
       IF original_length <= 0 THEN FALSE
       ELSE IF 5 * current_length < 4 * original_length THEN FALSE
       ELSE IF 4 * current_length > 5 * original_length THEN FALSE
       ELSE TRUE

InitValidator ==
  /\ OrchestratorIdle
  /\ unit_in \in ValidateInputs \cup TranslationInputs
  /\ unit_out = NoUnit
  /\ shared = NoThreads
  /\ threads = NoThreads

ApplyValidate ==
  /\ unit_in.fn = "validate"
  /\ unit_out = NoUnit
  /\ unit_out' = [kind |-> "verdict",
                  verdict |-> validate(unit_in.response_text, unit_in.validation_level,
                                       unit_in.custom_validator, unit_in.custom_result,
                                       kwargs_min_length(unit_in.kwargs),
                                       kwargs_finish_reason(unit_in.kwargs))]
  /\ UNCHANGED <<unit_in, shared, threads>>
  /\ UNCHANGED orch_vars

ApplyTranslationValidator ==
  /\ unit_in.fn = "translation_validator"
  /\ unit_out = NoUnit
  /\ unit_out' = [kind |-> "bool",
                  value |-> translation_validator(unit_in.text, unit_in.original_length,
                                                  unit_in.kwargs)]
  /\ UNCHANGED <<unit_in, shared, threads>>
  /\ UNCHANGED orch_vars

NextValidator ==
  \/ ApplyValidate
  \/ ApplyTranslationValidator

SpecValidator == InitValidator /\ [][NextValidator]_vars

\* validate has been applied to unit_in
Validated == unit_in.fn = "validate" /\ unit_out.kind = "verdict"

\* translation_validator has been applied to unit_in
Translated == unit_in.fn = "translation_validator" /\ unit_out.kind = "bool"

\* C13 as stated: whenever make_request has returned and a recorder was
\* supplied, the recorder has received exactly one call, carrying the stage
\* name, the usage of the successful attempt and that attempt's model,
\* provider, attempt index and primary/fallback label.
C13_RecorderCalledOnSuccess ==
  pc = "returned" /\ cfg.token_tracker =>
     /\ Len(recorder_calls) = 1
     /\ recorder_calls[1].stage = cfg.stage_name
     /\ recorder_calls[1].usage = response_obj.usage
     /\ recorder_calls[1].metadata.model = result.model
     /\ recorder_calls[1].metadata.provider = get_provider_for_model(result.model)
     /\ recorder_calls[1].metadata.attempt = attempt
     /\ recorder_calls[1].metadata.model_label =
           (IF result.model = primary_model(cfg) THEN "primary" ELSE "fallback")

\* C14 as stated: a response built from a vendor answer without usage
\* information still carries a usage record, flagged as estimated.
C14_UsageNeverAbsent ==
  unit_in.fn = "google" /\ unit_out.kind = "response" /\ ~unit_in.has_usage =>
     /\ unit_out.usage.kind = "usage"
     /\ "estimated" \in DOMAIN unit_out.usage
     /\ unit_out.usage.estimated

\* C15: every make_request invocation eventually ends, by returning or
\* by raising, having made at most max_attempts router calls per model.
C15_Terminates ==
  <>(pc \in {"returned", "raised"} /\ Len(Calls) <= 2 * max_attempts)

C15_Witness ==
  /\ pc = "returned"
  /\ model_index = 2
  /\ attempt = max_attempts
  /\ Len(Calls) = 2 * max_attempts
  /\ Len(SelectSeq(trace, IsSleep)) = 4

C17_CustomOverridesEveryLevel ==
  Validated /\ unit_in.custom_validator =>
     unit_out.verdict = unit_in.custom_result

TextChecksPass ==
  /\ ~unit_in.response_text.none
  /\ ~unit_in.response_text.garbage
  /\ Len(Strip(unit_in.response_text.chars)) >= kwargs_min_length(unit_in.kwargs)

\* C19 as stated: the statistical level accepts a text only if the finish
\* reason is a natural-stop value.
C19_OnlyNaturalStopAccepted ==
  Validated /\ unit_in.validation_level = "v3" /\ ~unit_in.custom_validator
            /\ unit_out.verdict = "pass" =>
     kwargs_finish_reason(unit_in.kwargs) \in {"STOP", "stop", "END_TURN", "end_turn"}

\* C19, amended: the statistical level accepts a text only if the finish
\* reason is a natural-stop value or is absent (None or empty); with any
\* other finish reason the text is rejected even when every text check
\* passes.
C19_FinishReasonGate ==
  Validated /\ unit_in.validation_level = "v3" /\ ~unit_in.custom_validator =>
     LET fr == kwargs_finish_reason(unit_in.kwargs)
         natural == fr \in {"STOP", "stop", "END_TURN", "end_turn"}
         absent == fr \in {NoneVal, ""}
     IN  /\ unit_out.verdict \in {"pass", "fail"}
         /\ unit_out.verdict = "pass" => natural \/ absent
         /\ TextChecksPass /\ (natural \/ absent) => unit_out.verdict = "pass"

C19_Witness ==
  /\ Validated
  /\ unit_in.validation_level = "v3"
  /\ ~unit_in.custom_validator
  /\ TextChecksPass
  /\ kwargs_finish_reason(unit_in.kwargs) = "MAX_TOKENS"
  /\ unit_out.verdict = "fail"

\* C20: translation_validator accepts exactly when the statistical gate
\* accepts and 5L >= 4 * original_length and 4L <= 5 * original_length, L
\* being the length of the text; for original_length 1000 it rejects L = 750,
\* accepts L = 900 and rejects L = 1300.
C20_TranslationRatio ==
  Translated =>
     LET L == Len(unit_in.text.chars)
         orig == unit_in.original_length
         gate == validate_v3(unit_in.text, kwargs_min_length(unit_in.kwargs),
                             kwargs_finish_reason(unit_in.kwargs))
     IN  /\ unit_out.value <=> (gate /\ 5 * L >= 4 * orig /\ 4 * L <= 5 * orig)
         /\ orig = 1000 /\ L = 750 => ~unit_out.value
         /\ orig = 1000 /\ L = 900 /\ gate => unit_out.value
         /\ orig = 1000 /\ L = 1300 => ~unit_out.value

C20_Witness ==
  /\ Translated
  /\ unit_in.original_length = 1000
  /\ Len(unit_in.text.chars) = 900
  /\ unit_in.text.chars[1] = "x"
  /\ unit_out.value

(***************************************************************************)
(* src/src/llm_providers.py: the client cache of the router singleton,     *)
(* used from the executor threads that run make_request                    *)
(***************************************************************************)
\* executor threads
Threads == {1, 2}

\* provider calls made by one thread
MaxRouterCalls == 2

\* the providers reached through _get_or_create_client
ClientProviders == {"deepseek", "openrouter"}

\* no client
NoClient == 0

\* `provider in self._clients_cache` never holds
cache_hit_never(p, cache) == FALSE

\* `provider in self._clients_cache` (line 116)
cache_hit(p, cache) == cache[p] # NoClient

\* os.getenv(provider_config["api_key_env"]) is empty, or the provider has no
\* configuration (lines 121-131)
credential_missing(p, environ) == p \notin DOMAIN LLM_PROVIDERS \/ p \notin environ

IdleThread == [pc |-> "idle", provider |-> NoneVal, client |-> NoClient,
               made |-> 0, last |-> NoneVal]

InitRouter ==
  /\ OrchestratorIdle
  /\ unit_in = NoUnit
  /\ unit_out = NoUnit
  /\ \E environ \in SUBSET ClientProviders :
       shared = [kind |-> "router",
                 environ |-> environ,
                 cache |-> [p \in ClientProviders |-> NoClient],
                 constructed |-> [p \in ClientProviders |-> 0],
                 called |-> {},
                 http |-> <<>>]
  /\ threads = [t \in Threads |-> IdleThread]

\* _call_deepseek_direct / _call_openrouter is entered by thread t
CallProvider(t, p) ==
  /\ threads[t].pc = "idle"
  /\ threads[t].made < MaxRouterCalls
  /\ threads' = [threads EXCEPT ![t] = [pc |-> "lookup", provider |-> p,
                                        client |-> NoClient,
                                        made |-> threads[t].made + 1,
                                        last |-> NoneVal]]
  /\ shared' = [shared EXCEPT !.called = shared.called \cup {p}]

\* _get_or_create_client, lines 115-131: cached client, or ValueError, or go on
\* to construct one
Lookup(t) ==
  LET p == threads[t].provider IN
  /\ threads[t].pc = "lookup"
  /\ IF cache_hit(p, shared.cache)
     THEN threads' = [threads EXCEPT ![t].client = shared.cache[p], ![t].pc = "send"]
     ELSE IF credential_missing(p, shared.environ)
     THEN threads' = [threads EXCEPT ![t].pc = "idle", ![t].last = "ValueError"]
     ELSE threads' = [threads EXCEPT ![t].pc = "construct"]
  /\ UNCHANGED shared

\* client = OpenAI(**client_kwargs), line 145
Construct(t) ==
  LET p == threads[t].provider
      made == shared.constructed["deepseek"] + shared.constructed["openrouter"]
  IN
  /\ threads[t].pc = "construct"
  /\ threads' = [threads EXCEPT ![t].client = made + 1, ![t].pc = "store"]
  /\ shared' = [shared EXCEPT !.constructed[p] = shared.constructed[p] + 1]

\* self._clients_cache[provider] = client, line 146
Store(t) ==
  /\ threads[t].pc = "store"
  /\ shared' = [shared EXCEPT !.cache[threads[t].provider] = threads[t].client]
  /\ threads' = [threads EXCEPT ![t].pc = "send"]

\* client.chat.completions.create(...) with the client obtained
Send(t) ==
  /\ threads[t].pc = "send"
  /\ shared' = [shared EXCEPT !.http = Append(shared.http,
                   [provider |-> threads[t].provider, client |-> threads[t].client])]
  /\ threads' = [threads EXCEPT ![t].pc = "idle", ![t].last = "ok"]

\* no other thread is inside a provider call
Alone(t) == \A u \in Threads \ {t} : threads[u].pc = "idle"

RouterStep(t) ==
  \/ Lookup(t)
  \/ Construct(t)
  \/ Store(t)
  \/ Send(t)

\* router calls made one after the other
NextRouterSequential ==
  /\ \E t \in Threads :
       \/ \E p \in ClientProviders : Alone(t) /\ CallProvider(t, p)
       \/ RouterStep(t)
  /\ UNCHANGED <<unit_in, unit_out>>
  /\ UNCHANGED orch_vars

\* router calls made by threads running concurrently
NextRouter ==
  /\ \E t \in Threads :
       \/ \E p \in ClientProviders : CallProvider(t, p)
       \/ RouterStep(t)
  /\ UNCHANGED <<unit_in, unit_out>>
  /\ UNCHANGED orch_vars

SpecRouterSequential == InitRouter /\ [][NextRouterSequential]_vars

SpecRouter == InitRouter /\ [][NextRouter]_vars

\* requests sent to provider p
HttpFor(p) == SelectSeq(shared.http, LAMBDA h : h.provider = p)

\* C21: over sequential router calls a provider's client is constructed at
\* most once, and only once a call needed it; every request for the provider
\* is sent with the cached client; with the credential absent no client is
\* cached, none is constructed and no request is sent.
C21_ClientConstructedOnce ==
  \A p \in ClientProviders :
     /\ shared.constructed[p] <= 1
     /\ shared.constructed[p] = 1 => p \in shared.called
     /\ \A i \in 1..Len(HttpFor(p)) :
           HttpFor(p)[i].client # NoClient /\ HttpFor(p)[i].client = shared.cache[p]
     /\ p \notin shared.environ =>
           /\ shared.cache[p] = NoClient
           /\ shared.constructed[p] = 0
           /\ HttpFor(p) = <<>>
     /\ \A t \in Threads :
           threads[t].last = "ValueError" /\ threads[t].pc = "idle" =>
              threads[t].provider \notin shared.environ

C21_Witness ==
  /\ Len(HttpFor("openrouter")) = 3
  /\ shared.constructed["openrouter"] = 1
  /\ "deepseek" \notin shared.environ
  /\ \E t \in Threads : threads[t].last = "ValueError" /\ threads[t].provider = "deepseek"

\* C22 as stated: under concurrent first use, an entry of the client cache,
\* once written, is never replaced by another client.
C22_FirstWriterWins ==
  [][\A p \in ClientProviders :
        shared.cache[p] # NoClient => shared'.cache[p] = shared.cache[p]]_vars

(***************************************************************************)
(* src/src/llm_processing.py: sections generated in parallel, one          *)
(* make_request invocation per section, each in an executor thread         *)
(***************************************************************************)
\* every section writes under the same directory
section_path_common(idx) == <<"sections">>

\* section_path = os.path.join(sections_path, f"section_{idx}") (lines 964-967)
section_path(idx) == <<"sections", idx>>

\* the objects an invocation touches outside its own frame
CacheObject == [obj |-> "clients_cache", dir |-> <<>>, attempt |-> 0]

TrackerObject == [obj |-> "session_tokens", dir |-> <<>>, attempt |-> 0]

\* llm_responses_raw/{stage}_..._attempt{attempt}_{timestamp} under base_path
FileObject(dir, a) == [obj |-> "file", dir |-> dir, attempt |-> a]

Touch(t, o) == shared.access \cup {[object |-> o, thread |-> t]}

IdleSection == [pc |-> "idle", idx |-> 0, model_index |-> 1, attempt |-> 1]

\* _generate_single_section_async before it awaits its request
NewCaller == [pc |-> "start", invocations |-> 0, timed_out |-> FALSE,
              raised |-> FALSE, status |-> NoneVal, late_calls |-> 0]

\* the section is submitted again after a failure
section_after_exception_resubmit(invocations) ==
  IF invocations < max_attempts THEN "start" ELSE "done"

\* _generate_single_section_async, lines 1034-1042: the except clause returns
\* the failed result; there is no loop around the request
section_after_exception(invocations) == "done"

InitSections ==
  /\ OrchestratorIdle
  /\ unit_in = NoUnit
  /\ unit_out = NoUnit
  /\ shared = [kind |-> "sections", cache |-> {}, session_tokens |-> <<>>,
               files |-> {}, access |-> {},
               callers |-> [t \in Threads |-> NewCaller]]
  /\ threads = [t \in Threads |-> IdleSection]

\* _generate_single_section_async awaits _make_llm_request_with_timeout,
\* which hands make_request for section idx = t to an executor thread
SectionStart(t) ==
  /\ shared.callers[t].pc = "start"
  /\ threads[t].pc \in {"idle", "returned", "raised"}
  /\ threads' = [threads EXCEPT ![t] = [pc |-> "route", idx |-> t,
                                        model_index |-> 1, attempt |-> 1]]
  /\ shared' = [shared EXCEPT !.callers[t].pc = "awaiting",
                              !.callers[t].invocations = @ + 1]

\* route_request for the stage's model: the router singleton's cache is
\* consulted and filled; the provider answers or the call raises
SectionRoute(t) ==
  LET models == <<LLM_MODELS.generate_article, FALLBACK_MODELS.generate_article>>
      prov == get_provider_for_model(models[threads[t].model_index])
  IN
  /\ threads[t].pc = "route"
  /\ shared' = [shared EXCEPT !.cache = shared.cache \cup {prov},
                              !.access = Touch(t, CacheObject),
                              !.callers[t].late_calls =
                                 IF shared.callers[t].timed_out THEN @ + 1 ELSE @]
  /\ \E answered \in BOOLEAN :
       threads' = [threads EXCEPT ![t].pc = IF answered THEN "save" ELSE "retry"]

\* _save_raw_response under base_path = section_path, then the verdict
SectionSave(t) ==
  LET f == FileObject(section_path(threads[t].idx), threads[t].attempt) IN
  /\ threads[t].pc = "save"
  /\ shared' = [shared EXCEPT !.files = shared.files \cup {f},
                              !.access = Touch(t, f)]
  /\ \E valid \in BOOLEAN :
       threads' = [threads EXCEPT ![t].pc = IF valid THEN "track" ELSE "retry"]

\* token_tracker.add_usage on the tracker passed to every section
SectionTrack(t) ==
  /\ threads[t].pc = "track"
  /\ shared' = [shared EXCEPT
                  !.session_tokens = Append(shared.session_tokens,
                                            [stage |-> "generate_article", section |-> threads[t].idx]),
                  !.access = Touch(t, TrackerObject)]
  /\ threads' = [threads EXCEPT ![t].pc = "returned"]

\* the attempt loops of make_request
SectionRetry(t) ==
  /\ threads[t].pc = "retry"
  /\ threads' = [threads EXCEPT ![t] =
        IF threads[t].attempt < max_attempts
        THEN [@ EXCEPT !.attempt = @ + 1, !.pc = "route"]
        ELSE IF threads[t].model_index < 2
        THEN [@ EXCEPT !.model_index = 2, !.attempt = 1, !.pc = "route"]
        ELSE [@ EXCEPT !.pc = "raised"]]
  /\ UNCHANGED shared

\* the executor future completes before the deadline: the wrapper returns
\* the pair or re-raises, and the section result is built
SectionComplete(t) ==
  /\ shared.callers[t].pc = "awaiting"
  /\ threads[t].pc \in {"returned", "raised"}
  /\ shared' = [shared EXCEPT !.callers[t] =
        IF threads[t].pc = "returned"
        THEN [@ EXCEPT !.pc = "done", !.status = "success"]
        ELSE [@ EXCEPT !.pc = section_after_exception(shared.callers[t].invocations),
                       !.raised = TRUE, !.status = "failed"]]
  /\ UNCHANGED threads

\* asyncio.wait_for reaches the timeout while the executor thread is still
\* running: the wrapper raises (lines 745-747) and the caller's except clause
\* returns the failed result (lines 1034-1042); the thread is not stopped
SectionTimeout(t) ==
  /\ shared.callers[t].pc = "awaiting"
  /\ threads[t].pc \notin {"returned", "raised"}
  /\ shared' = [shared EXCEPT !.callers[t] =
        [@ EXCEPT !.pc = section_after_exception(shared.callers[t].invocations),
                  !.timed_out = TRUE, !.raised = TRUE, !.status = "failed"]]
  /\ UNCHANGED threads

NextSections ==
  /\ \E t \in Threads :
       \/ SectionStart(t)
       \/ SectionComplete(t)
       \/ SectionTimeout(t)
       \/ SectionRoute(t)
       \/ SectionSave(t)
       \/ SectionTrack(t)
       \/ SectionRetry(t)
  /\ UNCHANGED <<unit_in, unit_out>>
  /\ UNCHANGED orch_vars

SpecSections == InitSections /\ [][NextSections]_vars

\* the objects touched by more than one invocation
SharedObjects ==
  {a.object : a \in {x \in shared.access :
                        \E y \in shared.access : y.object = x.object /\ y.thread # x.thread}}

C24_TimeoutIsTerminal ==
  \A t \in Threads :
     /\ shared.callers[t].invocations <= 1
     /\ shared.callers[t].timed_out =>
           /\ shared.callers[t].raised
           /\ shared.callers[t].status = "failed"
           /\ shared.callers[t].pc = "done"

\* the section has failed on its deadline and the superseded invocation has
\* since called the router again and is still running
C24_Witness ==
  \E t \in Threads :
     /\ shared.callers[t].timed_out
     /\ shared.callers[t].status = "failed"
     /\ shared.callers[t].late_calls >= 2
     /\ threads[t].pc = "save"

\* the text of part i of the vendor response, empty when it has none
PartText(i) ==
  IF unit_in.parts[i].has_text THEN unit_in.parts[i].text ELSE <<>>

\* the text of the first n parts, in order
RECURSIVE TextUpTo(_)
TextUpTo(n) == IF n = 0 THEN <<>> ELSE TextUpTo(n - 1) \o PartText(n)

\* C25: the text of the response built from a vendor answer is the text of
\* all its parts, in order; with 3 parts that have text it is
\* part1 + part2 + part3 and not part1 alone.
C25_AllPartsConcatenated ==
  unit_in.fn = "google" /\ unit_out.kind = "response" =>
     /\ unit_out.content = TextUpTo(Len(unit_in.parts))
     /\ (Len(unit_in.parts) = 3 /\ \A i \in 1..3 : unit_in.parts[i].has_text) =>
           /\ unit_out.content =
                 unit_in.parts[1].text \o unit_in.parts[2].text \o unit_in.parts[3].text
           /\ unit_out.content # unit_in.parts[1].text

C25_Witness ==
  /\ unit_in.fn = "google"
  /\ unit_out.kind = "response"
  /\ Len(unit_in.parts) = 3
  /\ \A i \in 1..3 : unit_in.parts[i].has_text
  /\ unit_out.content = <<"a", "b", " ", "a">>

(***************************************************************************)
(* src/src/llm_providers.py: the request a route_request call sends        *)
(***************************************************************************)
\* "maxOutputTokens": max_tokens or 65536
GeminiMaxOutputTokens == 65536

\* max_tokens: Optional[int]
NoMaxTokens == [given |-> FALSE, value |-> 0]

MaxTokensArgs ==
  {NoMaxTokens} \cup
  {[given |-> TRUE, value |-> n] : n \in {0, 1, 4096, 65535, 65536, 65537, 100000}}

RequestModels ==
  {"gemini-2.5-flash-preview-09-2025", "gemini-2.5-flash", "deepseek-reasoner",
   "deepseek-chat", "google/gemini-2.5-flash-lite-preview-06-17",
   "deepseek/deepseek-chat-v3.1:free", "unlisted-model"}

\* "deepseek" in model_name.lower()
MentionsDeepseek(model_name) ==
  model_name \in {"deepseek-reasoner", "deepseek-chat", "deepseek/deepseek-chat-v3.1:free"}

RouteInputs ==
  [ fn : {"route_request"},
    model_name : RequestModels,
    max_tokens : MaxTokensArgs,
    response_format : BOOLEAN,
    enable_web_search : BOOLEAN ]

\* Python truth value of max_tokens
Truthy(max_tokens) == max_tokens.given /\ max_tokens.value # 0

\* the tools block is attached whatever enable_web_search says
google_tools_always(enable_web_search) == TRUE

\* lines 331-341: request_data["tools"] is set iff enable_web_search
google_tools(enable_web_search) == enable_web_search

\* the request _call_google_direct posts (lines 311-344)
google_request(model_name, max_tokens, enable_web_search) ==
  [kind |-> "request", provider |-> "google_direct", model |-> model_name,
   has_max_tokens |-> TRUE,
   max_tokens |-> IF Truthy(max_tokens) THEN max_tokens.value ELSE GeminiMaxOutputTokens,
   tools |-> google_tools(enable_web_search),
   response_format |-> FALSE,
   extra_body |-> FALSE]

\* the call _call_deepseek_direct makes (lines 237-254)
deepseek_request(model_name, max_tokens, response_format) ==
  [kind |-> "request", provider |-> "deepseek", model |-> model_name,
   has_max_tokens |-> Truthy(max_tokens),
   max_tokens |-> IF Truthy(max_tokens) THEN max_tokens.value ELSE 0,
   tools |-> FALSE,
   response_format |-> response_format,
   extra_body |-> FALSE]

\* the call _call_openrouter makes (lines 178-204)
openrouter_request(model_name, max_tokens, response_format) ==
  [kind |-> "request", provider |-> "openrouter", model |-> model_name,
   has_max_tokens |-> Truthy(max_tokens),
   max_tokens |-> IF Truthy(max_tokens) THEN max_tokens.value ELSE 0,
   tools |-> FALSE,
   response_format |-> response_format,
   extra_body |-> MentionsDeepseek(model_name)]

\* route_request (lines 71-100), up to the request it sends
route_request(a) ==
  LET p == get_provider_for_model(a.model_name) IN
    IF route_raises_config(a.model_name, {}) THEN [kind |-> "raise", provider |-> p]
    ELSE IF p = "google_direct"
         THEN google_request(a.model_name, a.max_tokens, a.enable_web_search)
    ELSE IF p = "deepseek"
         THEN deepseek_request(a.model_name, a.max_tokens, a.response_format)
    ELSE openrouter_request(a.model_name, a.max_tokens, a.response_format)

InitRoute ==
  /\ OrchestratorIdle
  /\ unit_in \in RouteInputs
  /\ unit_out = NoUnit
  /\ shared = NoThreads
  /\ threads = NoThreads

SendRequest ==
  /\ unit_in.fn = "route_request"
  /\ unit_out = NoUnit
  /\ unit_out' = route_request(unit_in)
  /\ UNCHANGED <<unit_in, shared, threads>>
  /\ UNCHANGED orch_vars

NextRoute == SendRequest

SpecRoute == InitRoute /\ [][NextRoute]_vars

\* a request has been sent for unit_in
Sent == unit_in.fn = "route_request" /\ unit_out.kind = "request"

\* C26: the request carries a search-grounding tool block exactly when web
\* search was requested and the provider of the model has the web-search
\* capability; in every other case it carries none.
C26_ToolsOnlyWhenRequestedAndSupported ==
  Sent =>
     (unit_out.tools <=>
         /\ unit_in.enable_web_search
         /\ LLM_PROVIDERS[get_provider_for_model(unit_in.model_name)].supports_web_search)

C26_Witness ==
  /\ Sent
  /\ unit_in.enable_web_search
  /\ unit_in.model_name = "gemini-2.5-flash"
  /\ unit_out.tools
  /\ unit_out.provider = "google_direct"

\* C27 as stated: the maxOutputTokens sent to the direct vendor never
\* exceeds 65536, and is 65536 when max_tokens is absent.
C27_MaxOutputTokensCapped ==
  Sent /\ unit_out.provider = "google_direct" =>
     /\ unit_out.max_tokens <= 65536
     /\ ~unit_in.max_tokens.given => unit_out.max_tokens = 65536

\* C28 as stated: with base_path set, an attempt that has ended, whatever
\* its outcome, has written exactly one artifact, and that artifact is for
\* this attempt.
C28_OneArtifactPerAttempt ==
  cfg.base_path /\ Calls # <<>> /\ pc \in {"sleep", "returned", "raised"} =>
     /\ Len(artifacts) = 1
     /\ artifacts[1].attempt = attempt
     /\ artifacts[1].model = current_model

(***************************************************************************)
(* src/src/llm_processing.py: the JSON post-processors.  A candidate text  *)
(* is described by what json.loads gives at each repair attempt:           *)
(* "error" for JSONDecodeError, or the kind of value parsed.               *)
(***************************************************************************)
\* json.loads outcomes in _parse_json_from_response
ParseOutcomes ==
  {"error", "list", "empty_list", "dict", "dict_data", "dict_ultimate", "scalar"}

\* json.loads outcomes in _try_parse_editorial_json
EditorialOutcomes == {"error", "dict", "list", "scalar"}

\* texts given to _parse_json_from_response: blank after strip, or the
\* outcomes of attempt 1, attempt 1.5, attempt 3 (some block parsed or none)
\* and attempt 4.  Attempt 2 reparses the string of attempt 1 and cannot
\* succeed once attempt 1 has failed.
StructureTexts ==
  [blank : {FALSE}, a1 : ParseOutcomes, a15 : ParseOutcomes,
   a3 : {"error", "list"}, a4 : ParseOutcomes]
  \cup
  [blank : {TRUE}, a1 : {"error"}, a15 : {"error"}, a3 : {"error"}, a4 : {"error"}]

\* texts given to _try_parse_editorial_json: the outcomes of attempts 0..4
EditorialTexts == [1..5 -> EditorialOutcomes]

\* the "smart formatting" applied to a parsed value (lines 481-503, 570-586)
SmartFormat(v) ==
  IF v \in {"list", "empty_list"} THEN v
  ELSE IF v = "dict_ultimate" THEN "dict"
  ELSE IF v = "dict_data" THEN "list"
  ELSE IF v = "dict" THEN "list"
  ELSE "empty_list"

\* _parse_json_from_response (lines 439-640): the kind of value returned
parse_json_from_response(t) ==
  IF t.blank THEN "empty_list"
  ELSE IF t.a1 # "error" THEN SmartFormat(t.a1)
  ELSE IF t.a15 # "error" THEN SmartFormat(t.a15)
  ELSE IF t.a3 # "error" THEN "list"
  ELSE IF t.a4 = "error" THEN "empty_list"
  ELSE IF t.a4 = "scalar" THEN "None"
  ELSE SmartFormat(t.a4)

\* index of the first attempt that parses, 0 when none does
FirstParsed(t) ==
  IF \E i \in 1..5 : t[i] # "error"
  THEN CHOOSE i \in 1..5 : t[i] # "error" /\ \A j \in 1..(i - 1) : t[j] = "error"
  ELSE 0

\* _try_parse_editorial_json (lines 1974-2082)
try_parse_editorial_json(t) ==
  IF FirstParsed(t) = 0 THEN "None" ELSE t[FirstParsed(t)]

\* _editorial_post_processor (lines 55-74)
editorial_post_processor(t) == try_parse_editorial_json(t)

\* _extract_post_processor (lines 77-101)
extract_post_processor(t) ==
  LET parsed == parse_json_from_response(t) IN
    IF parsed \notin {"list", "empty_list"} THEN "None" ELSE parsed

\* _create_structure_post_processor (lines 104-146)
create_structure_post_processor(t) ==
  LET parsed == parse_json_from_response(t) IN
    IF parsed \in {"None", "empty_list"} THEN "None" ELSE "dict"

PostProcessorInputs ==
  [fn : {"post_processor"}, stage : {"editorial_review"}, text : EditorialTexts]
  \cup
  [fn : {"post_processor"}, stage : {"extract_sections", "create_structure"},
   text : StructureTexts]

InitJson ==
  /\ OrchestratorIdle
  /\ unit_in \in PostProcessorInputs
  /\ unit_out = NoUnit
  /\ shared = NoThreads
  /\ threads = NoThreads

ApplyPostProcessor ==
  /\ unit_in.fn = "post_processor"
  /\ unit_out = NoUnit
  /\ unit_out' = [kind |-> "processed",
                  value |-> IF unit_in.stage = "editorial_review"
                            THEN editorial_post_processor(unit_in.text)
                            ELSE IF unit_in.stage = "extract_sections"
                            THEN extract_post_processor(unit_in.text)
                            ELSE create_structure_post_processor(unit_in.text)]
  /\ UNCHANGED <<unit_in, shared, threads>>
  /\ UNCHANGED orch_vars

NextJson == ApplyPostProcessor

SpecJson == InitJson /\ [][NextJson]_vars

\* no repair attempt yields a valid parse of unit_in's text
Unparseable ==
  IF unit_in.stage = "editorial_review"
  THEN \A i \in 1..5 : unit_in.text[i] = "error"
  ELSE \/ unit_in.text.blank
       \/ /\ unit_in.text.a1 = "error" /\ unit_in.text.a15 = "error"
          /\ unit_in.text.a3 = "error" /\ unit_in.text.a4 = "error"

\* C29 as stated: a JSON post-processor applied to a text that no repair
\* can parse returns None, never an empty placeholder.
C29_UnparseableGivesNone ==
  unit_in.fn = "post_processor" /\ unit_out.kind = "processed" /\ Unparseable =>
     unit_out.value = "None"

(***************************************************************************)
(* src/src/llm_processing.py: _repair_json_control_chars.  Characters are  *)
(* named: QUOTE is the double quote, BSLASH the backslash, LF, TAB and BEL *)
(* are control characters (ord < 32), SP and a are ordinary characters.    *)
(***************************************************************************)
\* longest text given to the escaper
MaxJsonLen == 4

JsonChars == {"QUOTE", "BSLASH", "LF", "TAB", "BEL", "SP", "a"}

JsonTexts == UNION {[1..n -> JsonChars] : n \in 0..MaxJsonLen}

\* ord(char) < 32
IsControl(c) == c \in {"LF", "TAB", "BEL"}

\* the escape is appended and the raw character is kept after it
Escaped_keepsRaw(c) ==
  (IF c = "LF" THEN <<"BSLASH", "n">>
   ELSE IF c = "TAB" THEN <<"BSLASH", "t">>
   ELSE <<"BSLASH", "u", "0", "0", "0", "7">>) \o <<c>>

\* what a control character is rewritten to (lines 1956-1964)
Escaped(c) ==
  IF c = "LF" THEN <<"BSLASH", "n">>
  ELSE IF c = "TAB" THEN <<"BSLASH", "t">>
  ELSE <<"BSLASH", "u", "0", "0", "0", "7">>

\* control characters are rewritten wherever they stand
EscapesHere_anywhere(in_string, c) == IsControl(c)

\* `if in_string and ord(char) < 32` (line 1955)
EscapesHere(in_string, c) == in_string /\ IsControl(c)

\* the while loop (lines 1937-1969) from index i on: what is appended to
\* result for each character of the text, in order
RECURSIVE RepairFrom(_, _, _)
RepairFrom(text, i, in_string) ==
  IF i > Len(text) THEN <<>>
  ELSE IF text[i] = "BSLASH" /\ i + 1 <= Len(text)
       THEN <<<<text[i]>>, <<text[i + 1]>>>> \o RepairFrom(text, i + 2, in_string)
  ELSE IF text[i] = "QUOTE"
       THEN <<<<text[i]>>>> \o RepairFrom(text, i + 1, ~in_string)
  ELSE IF EscapesHere(in_string, text[i])
       THEN <<Escaped(text[i])>> \o RepairFrom(text, i + 1, in_string)
  ELSE <<<<text[i]>>>> \o RepairFrom(text, i + 1, in_string)

\* ''.join(result)
RECURSIVE Join(_)
Join(pieces) == IF pieces = <<>> THEN <<>> ELSE Head(pieces) \o Join(Tail(pieces))

\* _repair_json_control_chars(text): the pieces appended and the string
repair_json_control_chars(text) ==
  LET pieces == RepairFrom(text, 1, FALSE) IN
    [kind |-> "repaired", pieces |-> pieces, text |-> Join(pieces)]

InitRepair ==
  /\ OrchestratorIdle
  /\ \E t \in JsonTexts : unit_in = [fn |-> "repair", text |-> t]
  /\ unit_out = NoUnit
  /\ shared = NoThreads
  /\ threads = NoThreads

ApplyRepair ==
  /\ unit_in.fn = "repair"
  /\ unit_out = NoUnit
  /\ unit_out' = repair_json_control_chars(unit_in.text)
  /\ UNCHANGED <<unit_in, shared, threads>>
  /\ UNCHANGED orch_vars

\* the escaper applied to its own output
ApplyRepairAgain ==
  /\ unit_in.fn = "repair"
  /\ unit_out.kind = "repaired"
  /\ unit_out' = [kind |-> "repaired_twice",
                  once |-> unit_out.text,
                  text |-> repair_json_control_chars(unit_out.text).text]
  /\ UNCHANGED <<unit_in, shared, threads>>
  /\ UNCHANGED orch_vars

NextRepair ==
  \/ ApplyRepair
  \/ ApplyRepairAgain

SpecRepair == InitRepair /\ [][NextRepair]_vars

\* character i of the text is the second character of a backslash pair
RECURSIVE EscapedAt(_, _)
EscapedAt(text, i) ==
  i > 1 /\ text[i - 1] = "BSLASH" /\ ~EscapedAt(text, i - 1)

\* character i lies outside every quoted string: an even number of quotes
\* that are not part of a backslash pair stand before it
OutsideString(text, i) ==
  Cardinality({j \in 1..(i - 1) : text[j] = "QUOTE" /\ ~EscapedAt(text, j)}) % 2 = 0

\* C30: every character outside a quoted string is copied to the output
\* unchanged and in its place, whitespace and control characters between
\* fields included; a quote preceded by a backslash does not open or close
\* a string.
C30_OutsideStringsUntouched ==
  unit_in.fn = "repair" /\ unit_out.kind = "repaired" =>
     /\ Len(unit_out.pieces) = Len(unit_in.text)
     /\ unit_out.text = Join(unit_out.pieces)
     /\ \A i \in 1..Len(unit_in.text) :
           OutsideString(unit_in.text, i) => unit_out.pieces[i] = <<unit_in.text[i]>>
     /\ (\A i \in 1..Len(unit_in.text) : OutsideString(unit_in.text, i)) =>
           unit_out.text = unit_in.text

\* a newline inside a string is rewritten, the same newline after the
\* closing quote is not
C30_Witness ==
  /\ unit_in.fn = "repair"
  /\ unit_in.text = <<"QUOTE", "LF", "QUOTE", "LF">>
  /\ unit_out.kind = "repaired"
  /\ unit_out.text = <<"QUOTE", "BSLASH", "n", "QUOTE", "LF">>

\* C31 as stated: after the escaper has returned, every control character
\* that stood inside a quoted string of the input has been replaced by its
\* escaped form, and no raw control character is left inside a quoted
\* string of the output.
C31_NoRawControlInStrings ==
  unit_in.fn = "repair" /\ unit_out.kind = "repaired" =>
     /\ \A i \in 1..Len(unit_in.text) :
           ~OutsideString(unit_in.text, i) /\ IsControl(unit_in.text[i]) =>
              unit_out.pieces[i] = Escaped(unit_in.text[i])
     /\ \A k \in 1..Len(unit_out.text) :
           IsControl(unit_out.text[k]) => OutsideString(unit_out.text, k)

\* C32: applying the escaper to its own output changes nothing.
C32_EscaperIdempotent ==
  unit_in.fn = "repair" /\ unit_out.kind = "repaired_twice" =>
     unit_out.text = unit_out.once

C32_Witness ==
  /\ unit_in.fn = "repair"
  /\ unit_in.text = <<"QUOTE", "TAB", "BSLASH", "LF">>
  /\ unit_out.kind = "repaired_twice"
  /\ unit_out.once = <<"QUOTE", "BSLASH", "t", "BSLASH", "LF">>
  /\ unit_out.text = unit_out.once

\* C33: the recorder is called at most once in an invocation, and only by
\* the attempt that succeeds; an invocation that ends in exhaustion has
\* made no recorder call.
C33_RecorderOnlyOnSuccess ==
  /\ Len(recorder_calls) <= 1
  /\ recorder_calls # <<>> =>
        /\ pc = "returned"
        /\ outcome = "success"
        /\ recorder_calls[1].metadata.attempt = attempt
        /\ recorder_calls[1].metadata.model = result.model
  /\ pc = "raised" => recorder_calls = <<>>

C33_Witness ==
  /\ pc = "returned"
  /\ Len(recorder_calls) = 1
  /\ cfg.post_processor
  /\ Len(Calls) = 5
  /\ recorder_calls[1].metadata.attempt = 2
  /\ recorder_calls[1].metadata.model_label = "fallback"

\* C34: a successful make_request call that is given a token tracker and a
\* response with usage adds exactly one entry to the tracker's session,
\* whichever provider produced the response.
C34_OneEntryPerSuccess ==
  pc = "returned" /\ cfg.token_tracker /\ response_obj.usage =>
     Len(session_tokens) = 1

\* C35: the model_name field of the tracker entry recorded for a successful
\* request equals the model name make_request returns for that request.
C35_EntryNamesReturnedModel ==
  pc = "returned" /\ session_tokens # <<>> =>
     session_tokens[Len(session_tokens)].model_name = result.model

\* C36: once the timeout of an invocation has been reported, the superseded
\* invocation starts no further router call and adds no usage entry to the
\* shared token tracker.
C36_SupersededInvisible ==
  shared.kind = "sections" =>
     \A t \in Threads :
        shared.callers[t].timed_out =>
           /\ shared.callers[t].late_calls = 0
           /\ \A i \in 1..Len(shared.session_tokens) :
                 shared.session_tokens[i].section # t

\* C37: when the stage's fallback model is absent or equal to the primary
\* model (a primary given by the model_name override included), the model
\* list has exactly one element, at most max_attempts router calls are made,
\* all of them to the primary model, and every attempt is labelled primary.
C37_SingleModelList ==
  pc # "idle" /\ primary_model(cfg) # NoneVal /\ ~HasFallback =>
     /\ models_to_try = <<primary_model(cfg)>>
     /\ Len(Calls) <= max_attempts
     /\ \A i \in 1..Len(Calls) : Calls[i].model = primary_model(cfg)
     /\ model_label = "primary"
     /\ \A i \in 1..Len(recorder_calls) :
           recorder_calls[i].metadata.model_label = "primary"

C37_Witness ==
  /\ cfg.model_name # NoneVal
  /\ fallback_model(cfg) = cfg.model_name
  /\ Exhausted
  /\ Len(models_to_try) = 1
  /\ Len(Calls) = max_attempts
  /\ model_label = "primary"

C37_WitnessAbsent ==
  /\ fallback_model(cfg) = NoneVal
  /\ pc = "returned"
  /\ Len(models_to_try) = 1
  /\ Len(Calls) = max_attempts
  /\ Len(recorder_calls) = 1

\* the calls and backoff sleeps of a model whose attempts all failed
AllAttempts(m) ==
  <<CallEvent(m, 1), SleepEvent(m, 1, 2), CallEvent(m, 2), SleepEvent(m, 2, 5),
    CallEvent(m, 3)>>

\* C38 (states): with an unknown validation level and no custom validator
\* the invocation never returns; it ends in the exhaustion error after all
\* attempts on every model with the usual backoff, and the error's cause is
\* the validator's error when the last response reached the validator.
C38_AlwaysExhausts ==
  /\ cfg.validation_level = "strict"
  /\ ~cfg.custom_validator
  /\ primary_model(cfg) # NoneVal
  /\ pc \in {"returned", "raised"}
  => /\ Exhausted
     /\ trace = IF HasFallback
                THEN AllAttempts(primary_model(cfg)) \o AllAttempts(fallback_model(cfg))
                ELSE AllAttempts(primary_model(cfg))
     /\ recorder_calls = <<>>
     /\ (n_validate = 1 => result.cause = "validator_error")

\* C38 (steps): every non-empty text handed to the validator ends the
\* attempt with the validator's error, and that failure is followed by the
\* backoff sleep, the next model or the exhaustion error like any other.
C38_ValidatorErrorStep ==
  cfg.validation_level = "strict" /\ ~cfg.custom_validator =>
     /\ (pc = "validate" => pc' = "except" /\ outcome' = "validator_error")
     /\ (pc = "except" /\ outcome = "validator_error" =>
           IF attempt < max_attempts
           THEN pc' = "sleep" /\ attempt' = attempt /\ model_index' = model_index
           ELSE IF model_index < Len(models_to_try)
           THEN pc' = "route" /\ attempt' = 1 /\ model_index' = model_index + 1
           ELSE pc' = "raised"
                /\ result' = ExhaustedError(models_to_try, "validator_error"))
     /\ (pc = "sleep" =>
           /\ trace' = Append(trace, SleepEvent(current_model, attempt, delays[attempt]))
           /\ attempt' = attempt + 1
           /\ pc' = "route")

\* C38: with an unknown validation level, no custom validator and a router
\* that returns non-empty text, the error raised by the validator is handled
\* like an ordinary attempt failure: every attempt on every model is made
\* with the usual backoff and the invocation ends in the exhaustion error.
C38_UnknownLevelExhausts ==
  [](C38_AlwaysExhausts) /\ [][C38_ValidatorErrorStep]_vars

C38_Witness ==
  /\ cfg.validation_level = "strict"
  /\ ~cfg.custom_validator
  /\ HasFallback
  /\ Exhausted
  /\ n_validate = 1
  /\ last_exception = "validator_error"
  /\ result.cause = "validator_error"
  /\ Len(trace) = 10

(***************************************************************************)
(* make_request with base_path set on a file system whose writes may fail  *)
(***************************************************************************)
InitDisk ==
  /\ cfg \in {c \in Configs : c.base_path}
  /\ env \in Environments
  /\ disk = "faulty"
  /\ clients_cache = {}
  /\ pc = "idle"
  /\ models_to_try = <<>>
  /\ model_index = 1
  /\ attempt = 1
  /\ response_obj = NoResponse
  /\ provider = NoneVal
  /\ outcome = "pending"
  /\ last_exception = NoneVal
  /\ trace = <<>>
  /\ http_log = <<>>
  /\ n_validate = 0
  /\ n_post = 0
  /\ artifacts = <<>>
  /\ session_tokens = <<>>
  /\ result = [kind |-> "none"]
  /\ recorder_calls = <<>>
  /\ unit_in = NoUnit
  /\ unit_out = NoUnit
  /\ shared = NoThreads
  /\ threads = NoThreads

SpecDisk == InitDisk /\ [][Next]_vars

\* C39 (states): no attempt ends because of a debug file, and the retry
\* budget is the same as with a working disk.
C39_NoSaveError ==
  /\ outcome # "save_error"
  /\ last_exception # "save_error"
  /\ attempt <= max_attempts
  /\ Len(Calls) <= max_attempts * Len(models_to_try)
  /\ (pc = "raised" /\ Calls # <<>> =>
        result = ExhaustedError(models_to_try, outcome))

\* C39 (steps): whether or not the step's writes succeed, the raw save is
\* followed by the empty-text check alone, an accepted response goes on to
\* the post-processor or is returned unchanged, the post-processor's value is
\* returned unchanged, and a failed attempt is followed by the usual sleep,
\* next model or exhaustion error; no such step makes a router call.
C39_OutcomeStep ==
  /\ (pc = "received" =>
        IF IsEmptyText(response_obj.content)
        THEN pc' = "except" /\ outcome' = "empty"
        ELSE pc' = "validate" /\ outcome' = outcome)
  /\ (pc = "validate" =>
        /\ (~cfg.custom_validator
            /\ validate(response_obj.content, cfg.validation_level, FALSE, "pass",
                        MinLengthArg, response_obj.finish_reason) = "pass"
              => pc' = IF cfg.post_processor THEN "postprocess" ELSE "returned")
        /\ (pc' = "except" => outcome' \in {"invalid", "validator_error"})
        /\ (pc' = "returned" =>
              /\ outcome' = "success"
              /\ result' = [kind |-> "returned", value |-> response_obj,
                            model |-> current_model]))
  /\ (pc = "postprocess" =>
        /\ (pc' = "except" => outcome' \in {"post_none", "post_exception"})
        /\ (pc' = "returned" =>
              /\ outcome' = "success"
              /\ result' = [kind |-> "returned",
                            value |-> Processed(response_obj.content, current_model),
                            model |-> current_model]))
  /\ (pc = "except" =>
        /\ last_exception' = outcome
        /\ IF attempt < max_attempts
           THEN pc' = "sleep" /\ attempt' = attempt /\ model_index' = model_index
           ELSE IF model_index < Len(models_to_try)
           THEN pc' = "route" /\ attempt' = 1 /\ model_index' = model_index + 1
           ELSE pc' = "raised" /\ result' = ExhaustedError(models_to_try, outcome))
  /\ (pc \in {"received", "validate", "postprocess", "except"} =>
        trace' = trace /\ http_log' = http_log)

\* C39: a failure while writing a debug artifact never changes the outcome
\* of an attempt: it does not turn an accepted response into a failed
\* attempt, does not consume retry budget, and does not change the returned
\* value or the raised error.
C39_SaveFailureIsHarmless ==
  [](C39_NoSaveError) /\ [][C39_OutcomeStep]_vars

\* every write of the attempt failed and the first response was returned
C39_Witness ==
  /\ disk = "faulty"
  /\ cfg.base_path
  /\ cfg.post_processor
  /\ pc = "returned"
  /\ artifacts = <<>>
  /\ Len(Calls) = 1
  /\ result.kind = "returned"
  /\ result.value = Processed(response_obj.content, current_model)

\* every write failed in an invocation that ended in the exhaustion error
C39_WitnessExhausted ==
  /\ disk = "faulty"
  /\ cfg.base_path
  /\ Exhausted
  /\ HasFallback
  /\ artifacts = <<>>
  /\ response_obj.kind # "none"
  /\ outcome = "invalid"
  /\ Len(Calls) = 6

====
